---- MODULE Spec2Model ----
(***************************************************************************)
(* The trace-export pipeline of ddtrace/internal/writer.py: the bounded    *)
(* queue Q (random overwrite when full, accept/drop statistics) shared by  *)
(* producer threads calling AgentWriter.write and by the AgentWriter       *)
(* worker thread, whose cycle (run) drains the queue, filters the drained  *)
(* traces, sends them, logs failed sends at a limited rate, hands rate     *)
(* tables to the priority sampler and resets the queue statistics.         *)
(*                                                                         *)
(* Every action is one critical section of Q.mutex or one thread-local     *)
(* stretch of code between two critical sections.                          *)
(***************************************************************************)
EXTENDS Integers, Sequences, FiniteSets, TLC

\* ------------------------------------------------------------------ bounds

\* Q(maxsize=MAX_TRACES); the program's 1000 scaled down.
MAX_TRACES == 2

\* Number of producer threads calling AgentWriter.write concurrently.
NumProducers == 2

\* At most this many put calls are counted between two reset_stats.
MaxAccepted == 3

\* The length of the longest trace a producer writes.
MaxLen == 3

\* The cooldown of the error log; the program's 60 scaled down.
LOG_ERR_INTERVAL == 1

\* The monotonic clock is followed up to this reading.
MaxClock == 5

Producers == 1..NumProducers

\* The marker of an item that has no __len__.
NoLen == 0

\* What a producer may write: an object without a length, or a list of
\* MaxLen spans (write() passes on truthy values only).
Lens == {NoLen, MaxLen}

\* An item carries its history: "new" until a drain returns it, "drained"
\* from then on.
NewItem(len) == [len |-> len, age |-> "new"]

\* ------------------------------------------------------------------ state

VARIABLES
    queue,          \* Q.queue: the deque of queued traces
    dropped,        \* Q.dropped
    accepted,       \* Q.accepted
    accepted_sum,   \* Q.accepted_sum
    accepted_min,   \* Q.accepted_min
    accepted_max,   \* Q.accepted_max
    accepted_avg,   \* Q.accepted_avg
    pc,             \* per producer: where it is in Q.put
    item,           \* per producer: the item of its put call
    wpc,            \* the worker: where it is in its cycle
    traces,         \* the worker: the traces its cycle drained
    final,          \* the worker: the cycle under way is on_shutdown's
    filters,        \* AgentWriter._filters (None or a list of filters)
    send_stats,     \* AgentWriter._send_stats
    cycle,          \* the worker: how far the cycle under way has come
    flushed,        \* the step just taken: the traces given to a flush_queue that returned
    sent,           \* the step just taken: its send_traces calls that returned, each
                    \* the list it was given
    responses,      \* the step just taken: the outcomes send_traces returned
    stats_out,      \* the step just taken: what reset_stats returned
    h_drained,      \* history: some drain has returned traces
    h_puts,         \* history: put calls completed before the first drain
    h_calls,        \* history: put calls made before the first drain
    h_lens,         \* history: lengths of the items put since the last reset
    h_over,         \* history: overwriting puts since the last reset
    h_owed,         \* history: completed puts no reset_stats has returned yet
    h_owed_sum,     \* history: their lengths, summed
    h_seen,         \* history, per producer: a drain has returned traces since
                    \* the last Queue.put of its put call
    dogstatsd,      \* AgentWriter.dogstatsd is set
    priority_sampler, \* AgentWriter._priority_sampler is set
    now,            \* the reading of monotonic.monotonic()
    last_error_ts,  \* AgentWriter._last_error_ts
    rates,          \* the priority sampler's rate table
    calls,          \* the step just taken: the worker's calls on dogstatsd, the
                    \* queue, the log and the sampler, in order
    json,           \* the step just taken: what the get_json calls returned
    traces_filtered, \* the step just taken: the values emitted as traces.filtered
    gauges,         \* the step just taken: the queue statistics emitted
    h_error_lines,  \* history: the clock readings at which _log_error_status
                    \* logged at error level
    h_watch,        \* history: whether the failures are counted
    h_failures      \* history: the failures the worker has seen, up to two,
                    \* when they are counted

qvars == <<queue, dropped, accepted, accepted_sum, accepted_min, accepted_max, accepted_avg>>
pvars == <<pc, item>>
wvars == <<wpc, traces, final, cycle>>
ovars == <<flushed, sent, responses, stats_out, calls, json, traces_filtered, gauges>>
cvars == <<filters, send_stats, dogstatsd, priority_sampler>>
svars == <<now, last_error_ts, rates, h_error_lines, h_watch, h_failures>>
hvars == <<h_drained, h_puts, h_calls, h_lens, h_over, h_owed, h_owed_sum, h_seen>>
vars == <<qvars, pvars, wvars, ovars, cvars, svars, hvars>>

\* ---------------------------------------------------------------- helpers

Min(a, b) == IF a < b THEN a ELSE b

Max(a, b) == IF a > b THEN a ELSE b

\* History: the items of s, each marked with the age a.
Aged(s, a) == [i \in 1..Len(s) |-> [s[i] EXCEPT !.age = a]]

\* The ages of the items of s.
Ages(s) == {s[i].age : i \in 1..Len(s)}

\* Producers inside a put call.
InFlight == {p \in Producers : pc[p] # "idle"}

\* ------------------------------------------------------------- Q: the queue

\* Queue._qsize: len(self.queue).
qsize == Len(queue)

\* hasattr(item, '__len__') ? len(item) : 1
ItemLength(it) == IF it.len = NoLen THEN 1 ELSE it.len

\* math.ceil(a / float(b)), b > 0
Ceil(a, b) == (a + b - 1) \div b

\* Mutant of update_stats: the average is rounded down.
update_stats_floor(it) ==
    LET item_length == ItemLength(it) IN
    /\ accepted' = accepted + 1
    /\ accepted_sum' = accepted_sum + item_length
    /\ accepted_min' = IF accepted_min > 0 THEN Min(accepted_min, item_length) ELSE item_length
    /\ accepted_max' = IF accepted_max > 0 THEN Max(accepted_max, item_length) ELSE item_length
    /\ accepted_avg' = (accepted_sum + item_length) \div (accepted + 1)

\* Q._update_stats, called with Q.mutex held.
update_stats(it) ==
    LET item_length == ItemLength(it) IN
    /\ accepted' = accepted + 1
    /\ accepted_sum' = accepted_sum + item_length
    /\ accepted_min' = IF accepted_min > 0 THEN Min(accepted_min, item_length) ELSE item_length
    /\ accepted_max' = IF accepted_max > 0 THEN Max(accepted_max, item_length) ELSE item_length
    /\ accepted_avg' = Ceil(accepted_sum + item_length, accepted + 1)

\* Queue.put(self, item, block=False): one critical section of Q.mutex that
\* raises Full when the queue holds maxsize items and appends otherwise.
Queue_put(p, it) ==
    IF qsize >= MAX_TRACES
    THEN /\ pc' = [pc EXCEPT ![p] = "full"]
         /\ UNCHANGED queue
    ELSE /\ queue' = Append(queue, it)
         /\ pc' = [pc EXCEPT ![p] = "stats"]

\* Mutant of overwrite: the new item is appended, no queued item replaced.
overwrite_append(p, idx) ==
    /\ queue' = Append(queue, item[p])
    /\ dropped' = dropped + 1
    /\ update_stats(item[p])

\* Mutant of overwrite: the random index is not used, the oldest item goes.
overwrite_first(p, idx) ==
    /\ queue' = [queue EXCEPT ![1] = item[p]]
    /\ dropped' = dropped + 1
    /\ update_stats(item[p])

\* Mutant of overwrite: the overwritten item is not counted as dropped.
overwrite_uncounted(p, idx) ==
    /\ queue' = [queue EXCEPT ![idx + 1] = item[p]]
    /\ dropped' = dropped
    /\ update_stats(item[p])

\* Q.put's except branch with the queue not empty, in its critical section:
\* the item at index idx is overwritten, the drop and the new item counted.
overwrite(p, idx) ==
    /\ queue' = [queue EXCEPT ![idx + 1] = item[p]]
    /\ dropped' = dropped + 1
    /\ update_stats(item[p])

\* Mutant of reset_stats: the counters are read after they were zeroed.
reset_stats_late ==
    /\ stats_out' = <<0, 0, 0, 0, 0, 0>>
    /\ dropped' = 0
    /\ accepted' = 0
    /\ accepted_sum' = 0
    /\ accepted_min' = 0
    /\ accepted_max' = 0
    /\ accepted_avg' = 0

\* Mutant of reset_stats: accepted_max is left out of the reset.
reset_stats_keep_max ==
    /\ stats_out' = <<dropped, accepted, accepted_sum, accepted_min, accepted_max, accepted_avg>>
    /\ dropped' = 0
    /\ accepted' = 0
    /\ accepted_sum' = 0
    /\ accepted_min' = 0
    /\ accepted_max' = accepted_max
    /\ accepted_avg' = 0

\* Q.reset_stats: one critical section.
reset_stats ==
    /\ stats_out' = <<dropped, accepted, accepted_sum, accepted_min, accepted_max, accepted_avg>>
    /\ dropped' = 0
    /\ accepted' = 0
    /\ accepted_sum' = 0
    /\ accepted_min' = 0
    /\ accepted_max' = 0
    /\ accepted_avg' = 0

\* Mutant of Q_get: only the oldest item is handed out.
Q_get_first(things) ==
    /\ traces' = <<things[1]>>
    /\ queue' = Tail(queue)

\* Mutant of Q_get: the deque handed out stays the queue's.
Q_get_keep(things) ==
    /\ traces' = things
    /\ queue' = things

\* Q._get, called by Queue.get with Q.mutex held: hand out the whole deque and
\* start a new one.
Q_get(things) ==
    /\ traces' = things
    /\ queue' = <<>>

\* ------------------------------------------------------ the filter chain

\* What process_trace returns to drop a trace.
None == [len |-> 0 - 1, age |-> "none"]

\* The outcome of a process_trace call that raises.
Raised == [len |-> 0 - 1, age |-> "raised"]

\* self._filters is None.
NoFilters == <<"None">>

\* filtr.process_trace(trace) of three filters:
\*   drop2   drops the traces of two spans,
\*   trim    cuts a trace of more than two spans down to two,
\*   strict  takes len(trace) and so raises on a trace without a length.
\* Each raises when it is handed None.
process_trace(filtr, trace) ==
    IF trace = None THEN Raised
    ELSE CASE filtr = "drop2" -> IF trace.len = 2 THEN None ELSE trace
           [] filtr = "trim" -> IF trace.len > 2 THEN [trace EXCEPT !.len = 2] ELSE trace
           [] filtr = "strict" -> IF trace.len = NoLen THEN Raised ELSE trace

\* The values of self._filters the model is built with.
FilterConfigs == {NoFilters, <<"trim", "drop2", "trim">>, <<"drop2", "trim", "strict">>}

\* Mutant of filter_trace: no break when a filter returns None.
RECURSIVE filter_trace_nobreak(_, _, _)
filter_trace_nobreak(fs, i, trace) ==
    IF i > Len(fs) THEN trace
    ELSE LET t == process_trace(fs[i], trace) IN
         IF t = Raised THEN Raised
         ELSE filter_trace_nobreak(fs, i + 1, t)

\* The inner loop of _apply_filters, from the i-th filter on: the filtered
\* trace, None once a filter returned None, Raised once one raised.
RECURSIVE filter_trace(_, _, _)
filter_trace(fs, i, trace) ==
    IF i > Len(fs) THEN trace
    ELSE LET t == process_trace(fs[i], trace) IN
         IF t = Raised THEN Raised
         ELSE IF t = None THEN None
         ELSE filter_trace(fs, i + 1, t)

\* Mutant of filter_loop: a filter's exception ends the loop, and the traces
\* filtered so far are returned.
RECURSIVE filter_loop_partial(_, _, _, _)
filter_loop_partial(fs, ts, k, filtered_traces) ==
    IF k > Len(ts) THEN [raised |-> FALSE, out |-> filtered_traces]
    ELSE LET trace == filter_trace(fs, 1, ts[k]) IN
         IF trace = Raised THEN [raised |-> FALSE, out |-> filtered_traces]
         ELSE IF trace # None THEN filter_loop_partial(fs, ts, k + 1, Append(filtered_traces, trace))
         ELSE filter_loop_partial(fs, ts, k + 1, filtered_traces)

\* The outer loop of _apply_filters over the traces from the k-th on, with
\* filtered_traces built so far.
RECURSIVE filter_loop(_, _, _, _)
filter_loop(fs, ts, k, filtered_traces) ==
    IF k > Len(ts) THEN [raised |-> FALSE, out |-> filtered_traces]
    ELSE LET trace == filter_trace(fs, 1, ts[k]) IN
         IF trace = Raised THEN [raised |-> TRUE, out |-> <<>>]
         ELSE IF trace # None THEN filter_loop(fs, ts, k + 1, Append(filtered_traces, trace))
         ELSE filter_loop(fs, ts, k + 1, filtered_traces)

\* AgentWriter._apply_filters: the filtered traces, or that a filter raised.
apply_filters(fs, ts) ==
    IF fs # NoFilters THEN filter_loop(fs, ts, 1, <<>>)
    ELSE [raised |-> FALSE, out |-> ts]

\* ------------------------------------------------------------ the transport

\* What api.send_traces reports for a payload: a response of status < 400,
\* a response of status >= 400, or the exception the request raised.
Outcomes == {"ok", "http_error", "exception"}

\* api.send_traces(traces): one payload and so one outcome when there are
\* traces to send, none otherwise.
send_traces(ts) == IF ts = <<>> THEN {<<>>} ELSE {<<o>> : o \in Outcomes}

\* The outcomes that flush_queue reports as errors: an Exception, or a
\* response of status >= 400.
Failures == {"http_error", "exception"}

\* ------------------------------------------------------------ the error log

\* History: no clock reading.
NoTime == 0 - 1

\* Mutant of log_error_status: a failure at the very end of the cooldown is
\* logged at error level already.
log_error_status_early(t, last) ==
    IF t >= last + LOG_ERR_INTERVAL
    THEN [level |-> "log.error", last |-> t]
    ELSE [level |-> "log.debug", last |-> last]

\* _log_error_status at clock reading t with _last_error_ts = last: the level
\* logged at and the new _last_error_ts.
log_error_status(t, last) ==
    IF t > last + LOG_ERR_INTERVAL
    THEN [level |-> "log.error", last |-> t]
    ELSE [level |-> "log.debug", last |-> last]

\* -------------------------------------------------------------- the sampler

\* The sampler's table before any response has set it.
NoRates == "initial"

\* The rate_by_service tables a response body may carry.
Tables == {"rates_a", "rates_b"}

\* What response.get_json() may return: nothing or a body without
\* rate_by_service, or a body with one of the tables.
Bodies == {"no_table"} \cup Tables

\* Mutant of handle_responses: the body of a failed response is read for
\* rates as well.
RECURSIVE handle_responses_all(_, _, _, _)
handle_responses_all(resps, bodies, k, st) ==
    IF k > Len(resps) THEN st
    ELSE handle_responses_all(resps, bodies, k + 1,
            LET logged == log_error_status(now, st.last)
                st1 == IF resps[k] \in Failures
                       THEN [st EXCEPT !.last = logged.last, !.calls = Append(@, logged.level)]
                       ELSE st
            IN
            IF priority_sampler /\ bodies[k] \in Tables
            THEN [st1 EXCEPT !.json = Append(@, bodies[k]), !.rates = bodies[k],
                             !.calls = Append(@, "set_sample_rate_by_service")]
            ELSE st1)

\* flush_queue's loop over the responses from the k-th on; st holds
\* _last_error_ts, the sampler's table and the calls made so far.
RECURSIVE handle_responses(_, _, _, _)
handle_responses(resps, bodies, k, st) ==
    IF k > Len(resps) THEN st
    ELSE handle_responses(resps, bodies, k + 1,
            IF resps[k] \in Failures
            THEN LET logged == log_error_status(now, st.last) IN
                 [st EXCEPT !.last = logged.last, !.calls = Append(@, logged.level)]
            ELSE IF priority_sampler
            THEN IF bodies[k] \in Tables
                 THEN [st EXCEPT !.json = Append(@, bodies[k]),
                                 !.rates = bodies[k],
                                 !.calls = Append(@, "set_sample_rate_by_service")]
                 ELSE [st EXCEPT !.json = Append(@, bodies[k])]
            ELSE st)

\* ------------------------------------------------------------------- Init

NoStats == <<>>

Init ==
    /\ queue = <<>>
    /\ dropped = 0
    /\ accepted = 0
    /\ accepted_sum = 0
    /\ accepted_min = 0
    /\ accepted_max = 0
    /\ accepted_avg = 0
    /\ pc = [p \in Producers |-> "idle"]
    /\ item = [p \in Producers |-> None]
    /\ wpc = "wait"
    /\ traces = <<>>
    /\ final = FALSE
    /\ cycle = "none"
    /\ flushed = <<>>
    /\ sent = <<>>
    /\ responses = <<>>
    /\ stats_out = NoStats
    /\ filters \in FilterConfigs
    /\ dogstatsd \in BOOLEAN
    /\ send_stats \in {health_metrics_enabled /\ dogstatsd : health_metrics_enabled \in BOOLEAN}
    /\ priority_sampler \in BOOLEAN
    /\ now = 0
    /\ last_error_ts = 0
    /\ rates = NoRates
    /\ h_error_lines = <<>>
    /\ h_watch \in BOOLEAN
    /\ h_failures = 0
    /\ calls = <<>>
    /\ json = <<>>
    /\ traces_filtered = <<>>
    /\ gauges = <<>>
    /\ h_drained = FALSE
    /\ h_puts = 0
    /\ h_calls = 0
    /\ h_lens = [l \in Lens |-> 0]
    /\ h_over = 0
    /\ h_owed = 0
    /\ h_owed_sum = 0
    /\ h_seen = [p \in Producers |-> FALSE]

\* A step that calls neither flush_queue nor reset_stats leaves nothing in
\* the variables that show what these did.
Quiet ==
    /\ flushed' = <<>>
    /\ sent' = <<>>
    /\ responses' = <<>>
    /\ stats_out' = NoStats
    /\ json' = <<>>
    /\ traces_filtered' = <<>>
    /\ gauges' = <<>>

\* A step of a producer: the worker calls nothing.
Silent ==
    /\ Quiet
    /\ calls' = <<>>

\* ---------------------------------------------------------- the producers

\* History: producer p's put call returns, having overwritten or not.
Completed(p, over) ==
    /\ h_puts' = IF h_drained THEN 0 ELSE h_puts + 1
    /\ h_lens' = [h_lens EXCEPT ![item[p].len] = @ + 1]
    /\ h_over' = IF over THEN h_over + 1 ELSE h_over
    /\ h_owed' = h_owed + 1
    /\ h_owed_sum' = h_owed_sum + (IF item[p].len = NoLen THEN 1 ELSE item[p].len)
    /\ h_seen' = [h_seen EXCEPT ![p] = FALSE]
    /\ UNCHANGED <<h_drained, h_calls>>

\* AgentWriter.write(spans) with spans truthy: Q.put(spans), up to the end of
\* its Queue.put call.
write(p) ==
    /\ pc[p] = "idle"
    /\ accepted + Cardinality(InFlight) < MaxAccepted
    /\ \E len \in Lens :
        /\ item' = [item EXCEPT ![p] = NewItem(len)]
        /\ Queue_put(p, NewItem(len))
    /\ h_calls' = IF h_drained THEN 0 ELSE h_calls + 1
    /\ UNCHANGED <<dropped, accepted, accepted_sum, accepted_min, accepted_max, accepted_avg>>
    /\ Silent
    /\ UNCHANGED <<wvars, cvars, svars, h_drained, h_puts, h_lens, h_over, h_owed, h_owed_sum, h_seen>>

\* Q.put, else branch: the second critical section, which counts the item
\* that Queue.put appended.
put_stats(p) ==
    /\ pc[p] = "stats"
    /\ update_stats(item[p])
    /\ pc' = [pc EXCEPT ![p] = "idle"]
    /\ item' = [item EXCEPT ![p] = None]
    /\ Completed(p, FALSE)
    /\ Silent
    /\ UNCHANGED <<queue, dropped, wvars, cvars, svars>>

\* Mutant of put_full: an item is overwritten in a full queue only.
put_full_only(p) ==
    /\ pc[p] = "full"
    /\ qsize = MAX_TRACES
    /\ \E idx \in 0..(qsize - 1) : overwrite(p, idx)
    /\ pc' = [pc EXCEPT ![p] = "idle"]
    /\ item' = [item EXCEPT ![p] = None]
    /\ Completed(p, TRUE)
    /\ Silent
    /\ UNCHANGED <<wvars, cvars, svars>>

\* Q.put, except Full branch with the queue not empty: replace the item at a
\* random index and count the new one.
put_full(p) ==
    /\ pc[p] = "full"
    /\ qsize # 0
    /\ \E idx \in 0..(qsize - 1) : overwrite(p, idx)
    /\ pc' = [pc EXCEPT ![p] = "idle"]
    /\ item' = [item EXCEPT ![p] = None]
    /\ Completed(p, TRUE)
    /\ Silent
    /\ UNCHANGED <<wvars, cvars, svars>>

\* Mutant of put_emptied: the retry is taken whatever the queue holds.
put_emptied_always(p) ==
    /\ pc[p] = "full"
    /\ pc' = [pc EXCEPT ![p] = "retry"]
    /\ Silent
    /\ UNCHANGED <<qvars, item, wvars, cvars, svars, hvars>>

\* Q.put, except Full branch with the queue found emptied: leave the critical
\* section to call self.put(item) again.
put_emptied(p) ==
    /\ pc[p] = "full"
    /\ qsize = 0
    /\ pc' = [pc EXCEPT ![p] = "retry"]
    /\ Silent
    /\ UNCHANGED <<qvars, item, wvars, cvars, svars, hvars>>

\* The Queue.put call of the retry.
put_retry(p) ==
    /\ pc[p] = "retry"
    /\ Queue_put(p, item[p])
    /\ h_seen' = [h_seen EXCEPT ![p] = FALSE]
    /\ UNCHANGED <<dropped, accepted, accepted_sum, accepted_min, accepted_max, accepted_avg>>
    /\ Silent
    /\ UNCHANGED <<item, wvars, cvars, svars>>
    /\ UNCHANGED <<h_drained, h_puts, h_calls, h_lens, h_over, h_owed, h_owed_sum>>

\* ------------------------------------------------------------- the worker

\* Mutant of run_get: the heartbeat is sent after the queue was read.
run_get_then_beat ==
    /\ wpc = "wait"
    /\ IF qsize = 0
       THEN /\ cycle' = "empty"
            /\ wpc' = "stats"
            /\ UNCHANGED <<queue, traces, hvars>>
       ELSE /\ Q_get(Aged(queue, "drained"))
            /\ cycle' = "drained"
            /\ wpc' = "flush"
            /\ h_drained' = TRUE
            /\ h_puts' = 0
            /\ h_calls' = 0
            /\ h_seen' = [p \in Producers |-> pc[p] # "idle"]
            /\ UNCHANGED <<h_lens, h_over, h_owed, h_owed_sum>>
    /\ calls' = IF dogstatsd THEN <<"get", "heartbeat", "writers">> ELSE <<"get">>
    /\ UNCHANGED <<dropped, accepted, accepted_sum, accepted_min, accepted_max, accepted_avg>>
    /\ Quiet
    /\ UNCHANGED <<pvars, cvars, svars>>

\* run, lines 72-86: the heartbeat and Queue.get(block=False), which raises
\* Empty on an empty queue and returns Q._get() otherwise.
run_get ==
    /\ wpc = "wait"
    /\ IF qsize = 0
       THEN /\ cycle' = "empty"
            /\ wpc' = "stats"
            /\ UNCHANGED <<queue, traces, hvars>>
       ELSE /\ Q_get(Aged(queue, "drained"))
            /\ cycle' = "drained"
            /\ wpc' = "flush"
            /\ h_drained' = TRUE
            /\ h_puts' = 0
            /\ h_calls' = 0
            /\ h_seen' = [p \in Producers |-> pc[p] # "idle"]
            /\ UNCHANGED <<h_lens, h_over, h_owed, h_owed_sum>>
    /\ calls' = IF dogstatsd THEN <<"heartbeat", "writers", "get">> ELSE <<"get">>
    /\ UNCHANGED <<dropped, accepted, accepted_sum, accepted_min, accepted_max, accepted_avg>>
    /\ Quiet
    /\ UNCHANGED <<pvars, cvars, svars>>

\* run_periodic = run: a tick of the periodic worker.
run_periodic ==
    /\ run_get
    /\ UNCHANGED final

\* on_shutdown = run: the worker, waiting for its next tick, is asked to
\* stop and runs its last cycle instead. (A stop asked for during a cycle is
\* seen when that cycle has returned, and so is a stop asked for then.)
on_shutdown ==
    /\ final' = TRUE
    /\ run_get

\* flush_queue(traces): filter, then send what passed.
flush_queue ==
    /\ wpc = "flush"
    /\ LET traces_flush_length == Len(traces)
           filtered == apply_filters(filters, traces)
       IN
       IF filtered.raised
       THEN /\ cycle' = "filter_error"
            /\ sent' = <<>>
            /\ responses' = <<>>
            /\ calls' = <<"filters.log.error">>
            /\ json' = <<>>
            /\ traces_filtered' = <<>>
            /\ UNCHANGED <<last_error_ts, rates, h_error_lines, h_failures>>
       ELSE /\ cycle' = "sent"
            /\ sent' = <<filtered.out>>
            /\ \E traces_responses \in send_traces(filtered.out) :
               \E bodies \in [1..Len(traces_responses) ->
                                 IF priority_sampler THEN Bodies ELSE {"unread"}] :
                 LET st == handle_responses(traces_responses, bodies, 1,
                             [last |-> last_error_ts, rates |-> rates,
                              calls |-> <<"send_traces">>, json |-> <<>>])
                 IN
                 /\ responses' = traces_responses
                 /\ h_failures' =
                        IF h_watch
                        THEN Min(2, h_failures + Len(SelectSeq(traces_responses,
                                                        LAMBDA r : r \in Failures)))
                        ELSE h_failures
                 /\ last_error_ts' = st.last
                 /\ rates' = st.rates
                 /\ h_error_lines' = h_error_lines \o
                        SelectSeq([i \in 1..Len(st.calls) |->
                                      IF st.calls[i] = "log.error" THEN now ELSE NoTime],
                                  LAMBDA t : t # NoTime)
                 /\ json' = st.json
                 /\ calls' = IF send_stats THEN Append(st.calls, "flush_stats") ELSE st.calls
            /\ traces_filtered' =
                 IF send_stats THEN <<Len(filtered.out) - traces_flush_length>> ELSE <<>>
    /\ flushed' = traces
    /\ traces' = <<>>
    /\ stats_out' = NoStats
    /\ gauges' = <<>>
    /\ wpc' = "stats"
    /\ UNCHANGED <<qvars, pvars, final, cvars, now, h_watch, hvars>>

\* Mutant of unexpected: the exception ends the worker thread.
unexpected_ends ==
    /\ wpc' = "done"
    /\ cycle' = "none"

\* The worker thread goes on after an exception that run let through: it
\* waits for its next tick or, after on_shutdown, ends.
unexpected ==
    /\ wpc' = IF final THEN "done" ELSE "wait"
    /\ cycle' = "none"

\* flush_queue(traces) when api.send_traces raises: neither flush_queue nor
\* run catches the exception, and what is left of both is not run.
flush_queue_raise ==
    /\ wpc = "flush"
    /\ ~apply_filters(filters, traces).raised
    /\ unexpected
    /\ calls' = <<"send_traces", "raise">>
    /\ traces' = <<>>
    /\ Quiet
    /\ UNCHANGED <<qvars, pvars, final, cvars, svars, hvars>>

\* Mutant of return: the worker waits for a next tick after on_shutdown too.
return_again ==
    /\ wpc' = "wait"
    /\ cycle' = "none"

\* run returns: the worker waits for the next tick or, after on_shutdown,
\* ends.
return ==
    /\ wpc' = IF final THEN "done" ELSE "wait"
    /\ cycle' = "none"

\* run, line 88: no statistics to send.
run_return ==
    /\ wpc = "stats"
    /\ ~send_stats
    /\ return
    /\ Quiet
    /\ calls' = <<>>
    /\ UNCHANGED <<qvars, pvars, traces, final, cvars, svars, hvars>>

\* run, lines 91-113: the queue statistics are read and reset in one
\* critical section, then emitted.
run_stats ==
    /\ wpc = "stats"
    /\ send_stats
    /\ reset_stats
    /\ return
    /\ flushed' = <<>>
    /\ sent' = <<>>
    /\ responses' = <<>>
    /\ h_lens' = [l \in Lens |-> 0]
    /\ h_over' = 0
    /\ h_owed' = h_owed - stats_out'[2]
    /\ h_owed_sum' = h_owed_sum - stats_out'[3]
    /\ calls' = <<"max_length", "reset_stats", "queue_stats">>
    /\ gauges' = <<stats_out'>>
    /\ json' = <<>>
    /\ traces_filtered' = <<>>
    /\ UNCHANGED <<queue, pvars, traces, final, cvars, svars>>
    /\ UNCHANGED <<h_drained, h_puts, h_calls, h_seen>>

\* --------------------------------------------------------------- the system

Next ==
    \/ \E p \in Producers : write(p)
    \/ \E p \in Producers : put_stats(p)
    \/ \E p \in Producers : put_full(p)
    \/ \E p \in Producers : put_emptied(p)
    \/ \E p \in Producers : put_retry(p)
    \/ run_periodic
    \/ on_shutdown
    \/ flush_queue
    \/ flush_queue_raise
    \/ run_return
    \/ run_stats

Spec == Init /\ [][Next]_vars

\* The writers that depart from the default (no filters, no health metrics)
\* in at most one of the two settings: dogstatsd is set to send the health
\* metrics to, and there is no priority sampler.
DInit ==
    /\ Init
    /\ filters = NoFilters \/ ~send_stats
    /\ dogstatsd = send_stats
    /\ ~priority_sampler
    /\ ~h_watch

DSpec == DInit /\ [][Next]_vars

\* The monotonic clock moves on.
clock_advance ==
    /\ now < MaxClock
    /\ now' = now + 1
    /\ Silent
    /\ UNCHANGED <<qvars, pvars, wvars, cvars, hvars>>
    /\ UNCHANGED <<last_error_ts, rates, h_error_lines, h_watch, h_failures>>

\* The steps of a writer that sends no health metrics.
PlainNext ==
    \/ \E p \in Producers : write(p)
    \/ \E p \in Producers : put_stats(p)
    \/ \E p \in Producers : put_full(p)
    \/ \E p \in Producers : put_emptied(p)
    \/ \E p \in Producers : put_retry(p)
    \/ run_periodic
    \/ on_shutdown
    \/ flush_queue
    \/ flush_queue_raise
    \/ run_return

\* The steps of a writer that sends no health metrics, and of its clock.
LogNext ==
    \/ PlainNext
    \/ clock_advance

\* The default writer (no filters, no dogstatsd, no priority sampler) as its
\* clock moves on.
LogInit ==
    /\ Init
    /\ filters = NoFilters
    /\ ~dogstatsd
    /\ ~priority_sampler
    /\ h_watch

LogSpec == LogInit /\ [][LogNext]_vars

\* The writers with a priority sampler and no dogstatsd, with and without
\* filters.
SamplerInit ==
    /\ Init
    /\ priority_sampler
    /\ ~dogstatsd
    /\ ~h_watch

SamplerSpec == SamplerInit /\ [][PlainNext]_vars

\* The writers with filters that trim, drop and raise, with and without
\* dogstatsd and health metrics.
MetricsInit ==
    /\ Init
    /\ filters = <<"drop2", "trim", "strict">>
    /\ ~priority_sampler
    /\ ~h_watch

MetricsSpec == MetricsInit /\ [][Next]_vars

\* The writers with dogstatsd and filters that trim and drop, with and
\* without health metrics.
DropInit ==
    /\ Init
    /\ filters = <<"trim", "drop2", "trim">>
    /\ dogstatsd
    /\ ~priority_sampler
    /\ ~h_watch

DropSpec == DropInit /\ [][Next]_vars

\* A step of producer p inside its put call.
ProducerStep(p) == put_stats(p) \/ put_full(p) \/ put_emptied(p) \/ put_retry(p)

\* A step of the worker thread.
WorkerStep ==
    run_periodic \/ on_shutdown \/ flush_queue \/ flush_queue_raise \/ run_return \/ run_stats

\* Every thread that can take a step is scheduled in the end: a producer
\* inside put goes on, the worker's tick comes and its cycle goes on.
\* Whether a producer calls write again is up to the program.
FairSpec ==
    /\ DSpec
    /\ \A p \in Producers : WF_vars(ProducerStep(p))
    /\ WF_vars(WorkerStep)

\* ------------------------------------------------------------------ claims

\* History: the number of put calls completed since the last reset_stats.
PutsSinceReset == h_lens[NoLen] + h_lens[MaxLen]

\* C1: the queue never holds more than maxsize items, whatever puts, drains
\* and resets interleave; while no drain has returned anything it holds at
\* least min(n, maxsize) items after n completed put calls and at most
\* min(m, maxsize) after m calls made, hence exactly min(n, maxsize) when no
\* put call is under way.
C1_QueueSize ==
    /\ qsize <= MAX_TRACES
    /\ ~h_drained =>
        /\ Min(h_puts, MAX_TRACES) <= qsize
        /\ qsize <= Min(h_calls, MAX_TRACES)
        /\ (InFlight = {} => qsize = Min(h_puts, MAX_TRACES))

\* C1, witness: more puts than maxsize have completed, none is under way, no
\* drain has occurred, and the queue is full.
C1_Witness ==
    /\ ~h_drained
    /\ InFlight = {}
    /\ h_puts > MAX_TRACES
    /\ qsize = MAX_TRACES

\* C2 as stated: with no put under way, accepted + dropped is the number of
\* put calls completed since the last reset_stats.
C2_Original == InFlight = {} => accepted + dropped = PutsSinceReset

\* C2, amended: in every state accepted is the number of put calls completed
\* since the last reset_stats and dropped is the number of those that
\* overwrote a queued item; accepted + dropped counts an overwriting put twice.
C2_Counters ==
    /\ accepted = PutsSinceReset
    /\ dropped = h_over
    /\ accepted + dropped = PutsSinceReset + h_over

\* C2, witness: no put is under way and a put has overwritten since the last
\* reset.
C2_Witness ==
    /\ InFlight = {}
    /\ h_over >= 1
    /\ dropped >= 1
    /\ accepted > dropped

\* C3: a drain hands out all that the queue holds and leaves it empty; the
\* queue only ever holds items no drain has returned, the worker's other
\* steps never touch the queue, and send_traces is only given items of the
\* cycle's own drain, once.
C3_NoDuplicate ==
    /\ [](/\ Ages(queue) \subseteq {"new"}
          /\ Ages(traces) \subseteq {"drained"}
          /\ Len(sent) <= 1
          /\ \A i \in 1..Len(sent) : Ages(sent[i]) \subseteq {"drained"})
    /\ [][/\ (wpc = "wait" /\ wpc' = "flush") =>
                (traces' = Aged(queue, "drained") /\ queue' = <<>>)
          /\ (wpc # "wait" /\ wpc' # wpc) => queue' = queue]_vars

\* C3, witness: a cycle whose send failed has ended its flush, and items put
\* since its drain wait in the queue.
C3_Witness ==
    /\ wpc = "stats"
    /\ responses = <<"exception">>
    /\ Len(flushed) = MAX_TRACES
    /\ qsize > 0

\* C4: a reset_stats returns the six counters as they stand, zeroes all six
\* in the same step and leaves the queue alone; when no put has completed
\* since the last reset it returns six zeros.
C4_ResetStats ==
    [][stats_out' # NoStats =>
        /\ stats_out' = <<dropped, accepted, accepted_sum, accepted_min, accepted_max, accepted_avg>>
        /\ <<dropped', accepted', accepted_sum', accepted_min', accepted_max', accepted_avg'>>
              = <<0, 0, 0, 0, 0, 0>>
        /\ queue' = queue
        /\ (PutsSinceReset = 0 => stats_out' = <<0, 0, 0, 0, 0, 0>>)]_vars

\* C4, witness: a reset_stats has just returned counters that were not zero,
\* drops among them, with items in the queue.
C4_Witness ==
    /\ stats_out # NoStats
    /\ stats_out[1] >= 1
    /\ stats_out[2] > stats_out[1]
    /\ stats_out[5] > stats_out[4]
    /\ qsize > 0

\* C6: a put that overwrites in a full queue replaces exactly one queued item
\* by the new one, at any of the occupied indices, and leaves the others and
\* the size as they are; dropped and accepted each grow by one.
C6_Overwrite ==
    /\ [](\A p \in Producers : (pc[p] = "full" /\ qsize = MAX_TRACES) =>
            \A i \in 1..qsize :
                ENABLED (put_full(p) /\ queue' = [queue EXCEPT ![i] = item[p]]))
    /\ [][\A p \in Producers : (pc[p] = "full" /\ pc'[p] = "idle" /\ qsize = MAX_TRACES) =>
            /\ Len(queue') = MAX_TRACES
            /\ \E i \in 1..qsize : queue' = [queue EXCEPT ![i] = item[p]]
            /\ dropped' = dropped + 1
            /\ accepted' = accepted + 1]_vars

\* C6, witness: maxsize + 1 puts and no drain; the queue is full, the last
\* put took the place of the second item, dropped = 1 and accepted =
\* maxsize + 1.
C6_Witness ==
    /\ ~h_drained
    /\ InFlight = {}
    /\ h_puts = MAX_TRACES + 1
    /\ h_lens[NoLen] = 1
    /\ qsize = MAX_TRACES
    /\ queue[1].len = NoLen
    /\ dropped = 1
    /\ accepted = MAX_TRACES + 1

\* C7: the accepted count and sum that the reset_stats calls have returned so
\* far, plus the current accepted and accepted_sum, are the number of put
\* calls completed so far and the sum of their items' lengths: no update is
\* lost or counted twice across a reset.
C7_NothingLost ==
    /\ h_owed = accepted
    /\ h_owed_sum = accepted_sum

\* C7, witness: a reset_stats has just returned a count while a put that has
\* appended its item is still to count it.
C7_Witness ==
    /\ stats_out # NoStats
    /\ stats_out[2] >= 1
    /\ \E p \in Producers : pc[p] = "stats"

\* The lengths put since the last reset, an item without a length as 1.
LengthsSinceReset == {(IF l = NoLen THEN 1 ELSE l) : l \in {k \in Lens : h_lens[k] > 0}}

RECURSIVE Chain(_, _, _)
Chain(fs, t, i) ==
    IF i = 0 THEN t
    ELSE LET prev == Chain(fs, t, i - 1) IN
         IF prev \in {None, Raised} THEN prev ELSE process_trace(fs[i], prev)

\* What the configured filters make of trace t.
Through(fs, t) == IF fs = NoFilters THEN t ELSE Chain(fs, t, Len(fs))

\* Some filter raises on some trace of ts.
Raises(fs, ts) == \E k \in 1..Len(ts) : Through(fs, ts[k]) = Raised

\* The traces of ts that no filter drops, filtered, in the order of ts.
Kept(fs, ts) ==
    SelectSeq([k \in 1..Len(ts) |-> Through(fs, ts[k])], LAMBDA t : t # None)

\* C9: when no filter raises, flush_queue sends, in one call, exactly the
\* drained traces for which no filter returned None, each as the filters in
\* their order left it, in drained order; a filter that returns None ends
\* that trace's chain and no other's; with no filters the traces are sent as
\* drained.
C9_Filters ==
    (flushed # <<>> /\ ~Raises(filters, flushed)) =>
        /\ cycle = "sent"
        /\ sent = <<Kept(filters, flushed)>>
        /\ (filters = NoFilters => sent = <<flushed>>)

\* C9, witness: of two drained traces the first was dropped by the second of
\* three filters and the second passed all three.
C9_Witness ==
    /\ filters = <<"trim", "drop2", "trim">>
    /\ Len(flushed) = 2
    /\ flushed[1].len = MaxLen
    /\ flushed[2].len = NoLen
    /\ cycle = "sent"
    /\ sent = <<<<flushed[2]>>>>

\* C10: when a filter raises on any trace of the drained set, send_traces is
\* not called in that cycle, the drained traces are gone and not queued
\* again, and the worker ends the cycle without touching the queue and waits
\* for its next tick, whose drain returns what was put since.
C10_FilterError ==
    /\ []((flushed # <<>> /\ Raises(filters, flushed)) =>
            /\ cycle = "filter_error"
            /\ sent = <<>>
            /\ responses = <<>>
            /\ traces = <<>>
            /\ Ages(queue) \subseteq {"new"})
    /\ [][(cycle = "filter_error" /\ wpc' # wpc) =>
            /\ sent' = <<>>
            /\ queue' = queue
            /\ wpc' = IF final THEN "done" ELSE "wait"]_vars

\* C10, witness: the filters passed the first of two drained traces and
\* raised on the second; nothing was sent, and a trace put since the drain
\* waits in the queue.
C10_Witness ==
    /\ filters = <<"drop2", "trim", "strict">>
    /\ Len(flushed) = 2
    /\ Through(filters, flushed[1]) \notin {None, Raised}
    /\ Through(filters, flushed[2]) = Raised
    /\ cycle = "filter_error"
    /\ sent = <<>>
    /\ qsize > 0

Called(cs) == {cs[i] : i \in 1..Len(cs)}

\* The step taken was a flush_queue whose send came back as a failure.
FailureStep == responses' # <<>> /\ responses'[1] \in Failures

C19_FirstFailure ==
    [][(FailureStep /\ h_watch /\ h_failures = 0) => "log.error" \in Called(calls')]_vars

\* C12: the sampler's table changes only in a flush_queue step whose send
\* came back as a success with a body that carries a rate table, and such a
\* step leaves the sampler with exactly that table; a failure is handed to
\* _log_error_status, its body is not read and the sampler is left alone, as
\* it is by a success without a table, by a tick on an empty queue and by a
\* tick whose filters raised.
C12_Sampler ==
    [][/\ rates' # rates =>
            /\ wpc = "flush" /\ cycle' = "sent"
            /\ responses' = <<"ok">>
            /\ json' = <<rates'>>
       /\ (responses' = <<"ok">> /\ json' # <<>> /\ json'[1] \in Tables) =>
            /\ rates' = json'[1]
            /\ "set_sample_rate_by_service" \in Called(calls')
       /\ (responses' = <<"ok">> /\ json' = <<"no_table">>) =>
            /\ rates' = rates
            /\ "set_sample_rate_by_service" \notin Called(calls')
       /\ FailureStep =>
            /\ rates' = rates
            /\ json' = <<>>
            /\ Called(calls') \cap {"log.error", "log.debug"} # {}
            /\ "set_sample_rate_by_service" \notin Called(calls')
       /\ cycle' \in {"empty", "filter_error"} => rates' = rates]_vars

\* C12, witness: after an earlier drain, a success whose body carried the
\* table rates_b has just left the sampler with that table.
C12_Witness ==
    /\ responses = <<"ok">>
    /\ json = <<"rates_b">>
    /\ rates = "rates_b"
    /\ "set_sample_rate_by_service" \in Called(calls)
    /\ h_drained
    /\ Len(flushed) = 1

C14_Unexpected ==
    /\ [](wpc = "wait" =>
            /\ ~final
            /\ traces = <<>>
            /\ ENABLED (run_periodic /\ (qsize > 0 => traces' = Aged(queue, "drained") /\ wpc' = "flush")))
    /\ [][(wpc = "flush" /\ wpc' \notin {"flush", "stats"}) =>
            /\ calls' = <<"send_traces", "raise">>
            /\ wpc' = IF final THEN "done" ELSE "wait"
            /\ UNCHANGED qvars
            /\ traces' = <<>>
            /\ stats_out' = NoStats]_vars

\* C14, witness: send_traces has just raised, the worker waits for its next
\* tick, and an item put during the failed cycle is in the queue.
C14_Witness ==
    /\ calls = <<"send_traces", "raise">>
    /\ wpc = "wait"
    /\ qsize > 0
    /\ accepted > qsize

C16_Atomic ==
    [][(\E p \in Producers : pc[p] = "stats" /\ pc'[p] = "stats") =>
            /\ ~(wpc = "wait" /\ wpc' = "flush")
            /\ stats_out' = NoStats]_vars

Count(cs, c) == Len(SelectSeq(cs, LAMBDA x : x = c))

\* The step taken begins a cycle of the worker.
BeginsCycle == wpc \in {"wait"} /\ wpc' # wpc

\* The step taken is the return of run.
Returns == wpc = "stats" /\ wpc' # wpc

C20_Filtered ==
    (send_stats /\ cycle = "sent") =>
        /\ Len(traces_filtered) = 1
        /\ traces_filtered[1] = Len(flushed) - Len(sent[1])
        /\ traces_filtered[1] >= 0

====
